---- MODULE Spec2Model ----
(***************************************************************************)
(* Phone-address microservice (FastAPI handlers in main.py, pydantic       *)
(* models in objects.py, AsyncRedisManager in redis_client.py) over an     *)
(* expiring key-value store.                                               *)
(*                                                                         *)
(* A string is a sequence of characters, a character a one-element name.   *)
(* An address is the record [txt, len]: pydantic only looks at its length. *)
(* Every await on the store client is one step of the handler's task.      *)
(***************************************************************************)
EXTENDS Integers, Sequences, FiniteSets, TLC

VARIABLES
    store,      \* the store's live keys: key -> [value, ttl]
    reachable,  \* whether the store answers at all
    pc,         \* per task: the await the handler is suspended at
    req,        \* per task: the request being handled
    loc,        \* per task: the handler's local variables
    resp,       \* per task: the response sent (pc = "done")
    calls,      \* per task: the store-client calls the request has made
    last,       \* per key: the address of the last successful write, while live
    before,     \* per task: the store as it was when the request came
    nin,        \* the normalizer's input string
    nout,       \* the normalizer's output, per inline copy
    client,     \* whether the manager holds a client (self.client is set)
    result,     \* what the manager's method last called directly returned
    age         \* per key: the seconds since its last successful write

vars ==
    <<store, reachable, pc, req, loc, resp, calls, last, before, nin, nout,
      client, result, age>>

-----------------------------------------------------------------------------
(* Bounds *)

NumTasks == 2        \* concurrent request tasks
MaxLen == 3          \* length of the strings fed to the normalizer
TicksPerTTL == 2     \* steps of the clock in one 30-day window

Tasks == 1..NumTasks

-----------------------------------------------------------------------------
(* Characters and strings *)

DecimalDigits == {"0", "1", "2", "3", "4", "5", "6", "7", "8", "9"}

\* U+00B2 SUPERSCRIPT TWO: Numeric_Type=Digit, so str.isdigit() is True for
\* it, and it is not a decimal digit (str.isdecimal() is False).
SuperscriptDigits == {"SUP2"}

isdigit(c) == c \in DecimalDigits \cup SuperscriptDigits

\* objects.py:12   ''.join(c for c in v if c.isdigit() or c == '+')
cleaned_validate_phone(v) == SelectSeq(v, LAMBDA c : isdigit(c) \/ c = "+")

\* the read path keeping the digits alone
cleaned_get_address_digits_only(phone) == SelectSeq(phone, LAMBDA c : isdigit(c))

\* main.py:102
cleaned_get_address(phone) == SelectSeq(phone, LAMBDA c : isdigit(c) \/ c = "+")

\* the update path keeping the digits alone
cleaned_update_address_digits_only(phone) == SelectSeq(phone, LAMBDA c : isdigit(c))

\* main.py:216
cleaned_update_address(phone) == SelectSeq(phone, LAMBDA c : isdigit(c) \/ c = "+")

\* the delete path keeping the digits alone
cleaned_delete_record_digits_only(phone) == SelectSeq(phone, LAMBDA c : isdigit(c))

\* main.py:269
cleaned_delete_record(phone) == SelectSeq(phone, LAMBDA c : isdigit(c) \/ c = "+")

-----------------------------------------------------------------------------
(* Values *)

\* Python's None where a string is expected.
None == [txt |-> "None", len |-> -1]

Addr(t, n) == [txt |-> t, len |-> n]

\* pydantic Field bounds of objects.py
PhoneMinLength == 10
PhoneMaxLength == 20
AddressMinLength == 5
AddressMaxLength == 500

\* main.py:167 and main.py:231: 30 * 24 * 60 * 60
TTL_SECONDS == 30 * 24 * 60 * 60

\* the store's "no expiration" (a key written by SET)
NoExpiry == -1

-----------------------------------------------------------------------------
(* Validation layer (objects.py) *)

\* the validator checking the length and returning the phone as written
PhoneAddressCreate_unnormalized(phone, address) ==
    [ok |-> /\ Len(phone) >= 10
            /\ Len(phone) <= 20
            /\ address.len >= 5
            /\ address.len <= 500,
     phone |-> phone, address |-> address]

\* the validator checking the length of the phone as written
PhoneAddressCreate_raw_length(phone, address) ==
    [ok |-> /\ Len(phone) >= 10
            /\ Len(cleaned_validate_phone(phone)) <= 20
            /\ address.len >= 5
            /\ address.len <= 500,
     phone |-> cleaned_validate_phone(phone), address |-> address]

\* PhoneAddressCreate: the 'before' validator normalizes phone and rejects
\* fewer than 10 characters; the Field bounds then apply to the normalized
\* phone and to the address.
PhoneAddressCreate(phone, address) ==
    LET cleaned == cleaned_validate_phone(phone)
        phone_ok == /\ ~(Len(cleaned) < 10)
                    /\ Len(cleaned) >= PhoneMinLength
                    /\ Len(cleaned) <= PhoneMaxLength
        address_ok == /\ address.len >= AddressMinLength
                      /\ address.len <= AddressMaxLength
    IN  [ok |-> phone_ok /\ address_ok, phone |-> cleaned, address |-> address]

\* AddressUpdate
AddressUpdate(address) ==
    [ok |-> address.len >= AddressMinLength /\ address.len <= AddressMaxLength,
     address |-> address]

-----------------------------------------------------------------------------
(* The store's commands, as the client library issues them *)

redis_setex(s, key, seconds, value) ==
    [k \in DOMAIN s \cup {key} |->
        IF k = key THEN [value |-> value, ttl |-> seconds] ELSE s[k]]

redis_set(s, key, value) ==
    [k \in DOMAIN s \cup {key} |->
        IF k = key THEN [value |-> value, ttl |-> NoExpiry] ELSE s[k]]

redis_get(s, key) == IF key \in DOMAIN s THEN s[key].value ELSE None

\* DEL: the store afterwards and the number of keys removed
redis_delete(s, key) ==
    [store |-> [k \in DOMAIN s \ {key} |-> s[k]],
     removed |-> IF key \in DOMAIN s THEN 1 ELSE 0]

redis_exists(s, key) == IF key \in DOMAIN s THEN 1 ELSE 0

\* KEYS *: every live key once, in an order of the store's choosing
redis_keys(s) ==
    {q \in [1..Cardinality(DOMAIN s) -> DOMAIN s] :
        \A i, j \in DOMAIN q : i # j => q[i] # q[j]}

-----------------------------------------------------------------------------
(* Record store client (redis_client.py).  f is what happens to the command: *)
(* "ok" (answered), "lost" (the fault hits before the store runs it),        *)
(* "applied" (the store runs it and the fault hits the reply),               *)
(* "uninitialized" (self.client is None: the method raises RuntimeError      *)
(* before any command).  Every method catches whatever is raised.            *)

Outcomes == {"ok", "lost", "applied"}

\* set_data leaving out the expiration (SET whatever expire is)
set_data_persistent(s, key, value, expire, f) ==
    LET written == redis_set(s, key, value)
    IN  IF f = "ok"
        THEN [ret |-> TRUE, store |-> written]
        ELSE [ret |-> FALSE, store |-> IF f = "applied" THEN written ELSE s]

\* set_data writing only where there is no live key (SET ... NX)
set_data_nx(s, key, value, expire, f) ==
    LET written == IF key \in DOMAIN s THEN s ELSE redis_setex(s, key, expire, value)
    IN  IF f = "ok"
        THEN [ret |-> TRUE, store |-> written]
        ELSE [ret |-> FALSE, store |-> IF f = "applied" THEN written ELSE s]

\* set_data writing the value and keeping the time a live key has left
set_data_keepttl(s, key, value, expire, f) ==
    LET written == redis_setex(s, key,
                               IF key \in DOMAIN s THEN s[key].ttl ELSE expire,
                               value)
    IN  IF f = "ok"
        THEN [ret |-> TRUE, store |-> written]
        ELSE [ret |-> FALSE, store |-> IF f = "applied" THEN written ELSE s]

\* set_data, redis_client.py:61-75
set_data(s, key, value, expire, f) ==
    LET written == IF expire # 0
                   THEN redis_setex(s, key, expire, value)
                   ELSE redis_set(s, key, value)
    IN  IF f = "ok"
        THEN [ret |-> TRUE, store |-> written]
        ELSE [ret |-> FALSE, store |-> IF f = "applied" THEN written ELSE s]

get_data(s, key, f) == IF f = "ok" THEN redis_get(s, key) ELSE None

\* delete_key answering True whenever the command went through
delete_key_uncounted(s, key, f) ==
    LET d == redis_delete(s, key)
    IN  IF f = "ok"
        THEN [ret |-> TRUE, store |-> d.store]
        ELSE [ret |-> FALSE, store |-> IF f = "applied" THEN d.store ELSE s]

\* delete_key, redis_client.py:109-120
delete_key(s, key, f) ==
    LET d == redis_delete(s, key)
    IN  IF f = "ok"
        THEN [ret |-> d.removed > 0, store |-> d.store]
        ELSE [ret |-> FALSE, store |-> IF f = "applied" THEN d.store ELSE s]

\* exists answering `result >= 0`
exists_nonnegative(s, key, f) == IF f = "ok" THEN redis_exists(s, key) >= 0 ELSE FALSE

exists(s, key, f) == IF f = "ok" THEN redis_exists(s, key) > 0 ELSE FALSE

keys(order, f) == IF f = "ok" THEN order ELSE << >>

-----------------------------------------------------------------------------
(* Requests *)

\* "+79161234567"
PHONE_PLUS == <<"+", "7", "9", "1", "6", "1", "2", "3", "4", "5", "6", "7">>

\* "+7 916 123 45 67"
PHONE_SPACED ==
    <<"+", "7", " ", "9", "1", "6", " ", "1", "2", "3", " ", "4", "5", " ", "6", "7">>

\* "916-123-45-67": ten characters once normalized
PHONE_TEN == <<"9", "1", "6", "-", "1", "2", "3", "-", "4", "5", "-", "6", "7">>

\* "916-123-45-6": nine characters once normalized
PHONE_NINE == <<"9", "1", "6", "-", "1", "2", "3", "-", "4", "5", "-", "6">>

RawPhones == {PHONE_PLUS, PHONE_SPACED, PHONE_TEN, PHONE_NINE}

Addresses == {Addr("A", 5), Addr("B", 500), Addr("C", 4), Addr("D", 501)}

Limits == {-1, 0, 1, 100}

Request(op, phone, address, limit) ==
    [op |-> op, phone |-> phone, address |-> address, limit |-> limit]

Requests ==
    {Request("create", p, a, 0) : p \in RawPhones, a \in Addresses}
    \cup {Request("update", p, a, 0) : p \in RawPhones, a \in Addresses}
    \cup {Request("read", p, None, 0) : p \in RawPhones}
    \cup {Request("delete", p, None, 0) : p \in RawPhones}
    \cup {Request("list", << >>, None, n) : n \in Limits}
    \cup {Request("stats", << >>, None, 0), Request("health", << >>, None, 0)}

\* "+79161234560" to "+79161234565", for the runs that need more than five
\* records
PhoneBook ==
    {<<"+", "7", "9", "1", "6", "1", "2", "3", "4", "5", "6", d>> :
        d \in {"0", "1", "2", "3", "4", "5"}}

\* the requests of the runs on many records: one address, one phone read,
\* updated and deleted, lists of one record
ManyRequests ==
    {Request("create", p, Addr("A", 5), 0) : p \in PhoneBook}
    \cup {Request(op, p, IF op = "update" THEN Addr("A", 5) ELSE None, 0) :
            op \in {"read", "update", "delete"},
            p \in {<<"+", "7", "9", "1", "6", "1", "2", "3", "4", "5", "6", "0">>}}
    \cup {Request("list", << >>, None, 1),
          Request("stats", << >>, None, 0), Request("health", << >>, None, 0)}

\* "+7916123456" followed by U+00B2: twelve characters once normalized
PHONE_SUP == <<"+", "7", "9", "1", "6", "1", "2", "3", "4", "5", "6", "SUP2">>

\* twenty-one digits
PHONE_LONG ==
    <<"9", "1", "6", "1", "2", "3", "4", "5", "6", "7", "8",
      "9", "1", "6", "1", "2", "3", "4", "5", "6", "7">>

\* "abc": nothing once normalized
PHONE_LETTERS == <<"a", "b", "c">>

\* the requests of the runs on the store's keys: phones that normalize to a
\* key of twelve characters, to too few, to too many and to none; an address
\* within the bounds and one outside them
KeyRequests ==
    {Request(op, p, a, 0) :
        op \in {"create", "update"},
        p \in {PHONE_SUP, PHONE_NINE, PHONE_LONG, PHONE_LETTERS},
        a \in {Addr("A", 5), Addr("D", 501)}}
    \cup {Request(op, p, None, 0) :
            op \in {"read", "delete"},
            p \in {PHONE_SUP, PHONE_NINE, PHONE_LONG, PHONE_LETTERS}}
    \cup {Request("list", << >>, None, 0),
          Request("stats", << >>, None, 0), Request("health", << >>, None, 0)}

\* the requests of the concurrent runs: one record, two addresses
ConcurrentRequests ==
    {r \in Requests :
        /\ r.phone \in {PHONE_PLUS, << >>}
        /\ r.address \in {Addr("A", 5), Addr("B", 500), None}
        /\ r.limit \in {0, 100}}

NoRequest == Request("none", << >>, None, 0)

NoResponse == [code |-> 0]

\* no method of the manager called directly yet
NoResult == [op |-> "none"]

Locals(phone, address) ==
    [phone |-> phone, address |-> address, all_keys |-> << >>,
     keys_to_fetch |-> << >>, records |-> << >>]

NoLocals == Locals(<< >>, None)

\* a store call as a request's history keeps it; `had` notes whether the key
\* was live when the call was made
Call(op, key, f, ret) ==
    [op |-> op, key |-> key, fault |-> f # "ok", ret |-> ret,
     had |-> key \in DOMAIN store]

\* what may happen to a command now: nothing but a fault while the store is
\* unreachable; a read that the store ran and whose reply is lost reads nothing
WriteOutcomes(F) ==
    IF ~client THEN {"uninitialized"} ELSE IF reachable THEN F ELSE F \cap {"lost"}
ReadOutcomes(F) ==
    IF ~client
    THEN {"uninitialized"}
    ELSE IF reachable THEN F \ {"applied"} ELSE F \cap {"lost"}

-----------------------------------------------------------------------------
(* Initial state *)

Init ==
    /\ store = << >>
    /\ reachable = TRUE
    /\ pc = [t \in Tasks |-> "idle"]
    /\ req = [t \in Tasks |-> NoRequest]
    /\ loc = [t \in Tasks |-> NoLocals]
    /\ resp = [t \in Tasks |-> NoResponse]
    /\ calls = [t \in Tasks |-> << >>]
    /\ last = << >>
    /\ before = [t \in Tasks |-> << >>]
    /\ nin = << >>
    /\ nout = << >>
    /\ client = TRUE
    /\ result = NoResult
    /\ age = << >>

-----------------------------------------------------------------------------
(* Bookkeeping shared by the steps *)

\* a step of task t that leaves it at `at` with locals l and response r,
\* after store call c, the store becoming s
Step(t, at, l, r, c, s) ==
    /\ pc' = [pc EXCEPT ![t] = at]
    /\ loc' = [loc EXCEPT ![t] = l]
    /\ resp' = [resp EXCEPT ![t] = r]
    /\ calls' = [calls EXCEPT ![t] = Append(@, c)]
    /\ store' = s
    /\ UNCHANGED <<reachable, req, before, nin, nout, client, result>>

Finish(t, r, c, s) == Step(t, "done", NoLocals, r, c, s)

-----------------------------------------------------------------------------
(* Record resource handlers (main.py) *)

\* a request body that fails validation: FastAPI answers 422, the handler
\* does not run
ValidationError == [code |-> 422]

\* GET /health: the raise inside the try is caught by `except Exception`,
\* which raises the 503 again; the redis dependency is never used
health_check == [code |-> 503, detail |-> "Service unhealthy"]

\* where a request starts: the body is validated and the path phone
\* normalized before the handler's first await
Dispatch(r) ==
    CASE r.op = "create" ->
            LET data == PhoneAddressCreate(r.phone, r.address)
            IN  IF data.ok
                THEN [pc |-> "create_exists", loc |-> Locals(data.phone, data.address),
                      resp |-> NoResponse]
                ELSE [pc |-> "done", loc |-> NoLocals, resp |-> ValidationError]
      [] r.op = "update" ->
            LET data == AddressUpdate(r.address)
            IN  IF data.ok
                THEN [pc |-> "update_exists",
                      loc |-> Locals(cleaned_update_address(r.phone), data.address),
                      resp |-> NoResponse]
                ELSE [pc |-> "done", loc |-> NoLocals, resp |-> ValidationError]
      [] r.op = "read" ->
            [pc |-> "read_get", loc |-> Locals(cleaned_get_address(r.phone), None),
             resp |-> NoResponse]
      [] r.op = "delete" ->
            [pc |-> "delete_exists",
             loc |-> Locals(cleaned_delete_record(r.phone), None), resp |-> NoResponse]
      [] r.op = "list" ->
            [pc |-> "list_keys", loc |-> NoLocals, resp |-> NoResponse]
      [] r.op = "stats" ->
            [pc |-> "stats_keys", loc |-> NoLocals, resp |-> NoResponse]
      [] r.op = "health" ->
            [pc |-> "done", loc |-> NoLocals, resp |-> health_check]

\* a task takes the next request (from the set R)
Receive(t, R) ==
    /\ pc[t] = "idle"
    /\ \E r \in R :
        LET d == Dispatch(r)
        IN  /\ req' = [req EXCEPT ![t] = r]
            /\ pc' = [pc EXCEPT ![t] = d.pc]
            /\ loc' = [loc EXCEPT ![t] = d.loc]
            /\ resp' = [resp EXCEPT ![t] = d.resp]
    /\ calls' = [calls EXCEPT ![t] = << >>]
    /\ before' = [before EXCEPT ![t] = store]
    /\ UNCHANGED <<store, reachable, last, nin, nout, client, result, age>>

\* the response is sent and the task ends
Return(t) ==
    /\ pc[t] = "done"
    /\ pc' = [pc EXCEPT ![t] = "idle"]
    /\ req' = [req EXCEPT ![t] = NoRequest]
    /\ loc' = [loc EXCEPT ![t] = NoLocals]
    /\ resp' = [resp EXCEPT ![t] = NoResponse]
    /\ calls' = [calls EXCEPT ![t] = << >>]
    /\ before' = [before EXCEPT ![t] = << >>]
    /\ UNCHANGED <<store, reachable, last, nin, nout, client, result, age>>

\* get_address, main.py:105-119
get_address_response(cleaned_phone, address) ==
    IF address = None
    THEN [code |-> 404]
    ELSE [code |-> 200, phone |-> cleaned_phone, address |-> address,
          status |-> "success"]

ReadGet(t, F) ==
    /\ pc[t] = "read_get"
    /\ \E f \in ReadOutcomes(F) :
        LET key == loc[t].phone
            address == get_data(store, key, f)
        IN  Finish(t, get_address_response(key, address),
                   Call("get", key, f, address # None), store)
    /\ UNCHANGED <<last, age>>

\* create_record, main.py:151-152
CreateExists(t, F) ==
    /\ pc[t] = "create_exists"
    /\ \E f \in ReadOutcomes(F) :
        LET key == loc[t].phone
            e == exists(store, key, f)
        IN  Step(t, IF e THEN "create_get" ELSE "create_set", loc[t], NoResponse,
                 Call("exists", key, f, e), store)
    /\ UNCHANGED <<last, age>>

\* create_record, main.py:153-161
CreateGet(t, F) ==
    /\ pc[t] = "create_get"
    /\ \E f \in ReadOutcomes(F) :
        LET key == loc[t].phone
            existing_address == get_data(store, key, f)
        IN  Finish(t, [code |-> 409, existing_address |-> existing_address],
                   Call("get", key, f, existing_address # None), store)
    /\ UNCHANGED <<last, age>>

\* create_record without its `if not success`
create_record_response_unchecked(phone, address, success) ==
    [code |-> 201, phone |-> phone, address |-> address,
     status |-> "created", ttl_days |-> 30]

\* create_record, main.py:170-184
create_record_response(phone, address, success) ==
    IF ~success
    THEN [code |-> 500]
    ELSE [code |-> 201, phone |-> phone, address |-> address,
          status |-> "created", ttl_days |-> 30]

\* create_record, main.py:164-184
CreateSet(t, F) ==
    /\ pc[t] = "create_set"
    /\ \E f \in WriteOutcomes(F) :
        LET key == loc[t].phone
            w == set_data(store, key, loc[t].address, TTL_SECONDS, f)
        IN  /\ Finish(t, create_record_response(key, loc[t].address, w.ret),
                      Call("set", key, f, w.ret), w.store)
            /\ last' = IF w.ret THEN (key :> loc[t].address) @@ last ELSE last
            /\ age' = IF w.ret THEN (key :> 0) @@ age ELSE age

\* update_address, main.py:219-225
UpdateExists(t, F) ==
    /\ pc[t] = "update_exists"
    /\ \E f \in ReadOutcomes(F) :
        LET key == loc[t].phone
            e == exists(store, key, f)
        IN  IF ~e
            THEN Finish(t, [code |-> 404], Call("exists", key, f, e), store)
            ELSE Step(t, "update_set", loc[t], NoResponse,
                      Call("exists", key, f, e), store)
    /\ UNCHANGED <<last, age>>

\* update_address, main.py:234-247
update_address_response(cleaned_phone, address, success) ==
    IF ~success
    THEN [code |-> 500]
    ELSE [code |-> 200, phone |-> cleaned_phone, address |-> address,
          status |-> "updated"]

\* update_address, main.py:228-247
UpdateSet(t, F) ==
    /\ pc[t] = "update_set"
    /\ \E f \in WriteOutcomes(F) :
        LET key == loc[t].phone
            w == set_data(store, key, loc[t].address, TTL_SECONDS, f)
        IN  /\ Finish(t, update_address_response(key, loc[t].address, w.ret),
                      Call("set", key, f, w.ret), w.store)
            /\ last' = IF w.ret THEN (key :> loc[t].address) @@ last ELSE last
            /\ age' = IF w.ret THEN (key :> 0) @@ age ELSE age

\* delete_record, main.py:272-278
DeleteExists(t, F) ==
    /\ pc[t] = "delete_exists"
    /\ \E f \in ReadOutcomes(F) :
        LET key == loc[t].phone
            e == exists(store, key, f)
        IN  IF ~e
            THEN Finish(t, [code |-> 404], Call("exists", key, f, e), store)
            ELSE Step(t, "delete_key", loc[t], NoResponse,
                      Call("exists", key, f, e), store)
    /\ UNCHANGED <<last, age>>

\* delete_record without its `if not success`
delete_record_response_unchecked(success) == [code |-> 204]

\* delete_record, main.py:282-290
delete_record_response(success) == IF ~success THEN [code |-> 500] ELSE [code |-> 204]

\* delete_record, main.py:281-290
DeleteKey(t, F) ==
    /\ pc[t] = "delete_key"
    /\ \E f \in WriteOutcomes(F) :
        LET key == loc[t].phone
            d == delete_key(store, key, f)
        IN  /\ Finish(t, delete_record_response(d.ret),
                      Call("delete", key, f, d.ret), d.store)
            /\ last' = IF d.ret THEN [k \in DOMAIN last \ {key} |-> last[k]] ELSE last
            /\ age' = IF d.ret THEN [k \in DOMAIN age \ {key} |-> age[k]] ELSE age

\* `if value:` of main.py:314
Truthy(value) == value # None /\ value.len > 0

Min(a, b) == IF a < b THEN a ELSE b

\* get_all_records, main.py:317-321
get_all_records_response(all_keys, records) ==
    [code |-> 200, total_records |-> Len(all_keys),
     displayed_records |-> Cardinality(DOMAIN records), records |-> records]

\* Python's seq[:n]
SliceTo(seq, n) ==
    IF n >= 0
    THEN SubSeq(seq, 1, Min(n, Len(seq)))
    ELSE SubSeq(seq, 1, IF Len(seq) + n > 0 THEN Len(seq) + n ELSE 0)

\* the slice taken whatever the sign of limit
keys_to_fetch_unguarded(all_keys, limit) == SliceTo(all_keys, limit)

\* get_all_records, main.py:308
keys_to_fetch(all_keys, limit) ==
    IF limit > 0 THEN SliceTo(all_keys, limit) ELSE all_keys

\* the handler's locals once the list is answered: the enumeration it made
Listed(all_keys) == [NoLocals EXCEPT !.all_keys = all_keys]

\* get_all_records, main.py:305-308; with nothing to fetch the loop body
\* never runs and the response follows at once
ListKeys(t, F) ==
    /\ pc[t] = "list_keys"
    /\ \E f \in ReadOutcomes(F) : \E order \in redis_keys(store) :
        LET all_keys == keys(order, f)
            fetch == keys_to_fetch(all_keys, req[t].limit)
            c == Call("keys", << >>, f, f = "ok")
        IN  IF fetch = << >>
            THEN Step(t, "done", Listed(all_keys),
                      get_all_records_response(all_keys, << >>), c, store)
            ELSE Step(t, "list_get",
                      [loc[t] EXCEPT !.all_keys = all_keys,
                                     !.keys_to_fetch = fetch],
                      NoResponse, c, store)
    /\ UNCHANGED <<last, age>>

\* get_all_records, main.py:312-315: one turn of the loop
ListGet(t, F) ==
    /\ pc[t] = "list_get"
    /\ \E f \in ReadOutcomes(F) :
        LET key == Head(loc[t].keys_to_fetch)
            rest == Tail(loc[t].keys_to_fetch)
            value == get_data(store, key, f)
            records == IF Truthy(value)
                       THEN (key :> value) @@ loc[t].records
                       ELSE loc[t].records
            c == Call("get", key, f, value # None)
        IN  IF rest = << >>
            THEN Step(t, "done", Listed(loc[t].all_keys),
                      get_all_records_response(loc[t].all_keys, records), c, store)
            ELSE Step(t, "list_get",
                      [loc[t] EXCEPT !.keys_to_fetch = rest, !.records = records],
                      NoResponse, c, store)
    /\ UNCHANGED <<last, age>>

\* get_stats reporting every key as its sample
get_stats_response_unbounded(all_keys) ==
    [code |-> 200, total_records |-> Len(all_keys), sample_size |-> Len(all_keys)]

\* get_stats, main.py:338-343
get_stats_response(all_keys) ==
    [code |-> 200, total_records |-> Len(all_keys),
     sample_size |-> Min(5, Len(all_keys))]

\* get_stats, main.py:336-343
StatsKeys(t, F) ==
    /\ pc[t] = "stats_keys"
    /\ \E f \in ReadOutcomes(F) : \E order \in redis_keys(store) :
        Finish(t, get_stats_response(keys(order, f)),
               Call("keys", << >>, f, f = "ok"), store)
    /\ UNCHANGED <<last, age>>

Handler(t, R, F) ==
    \/ Receive(t, R)
    \/ ReadGet(t, F)
    \/ CreateExists(t, F)
    \/ CreateGet(t, F)
    \/ CreateSet(t, F)
    \/ UpdateExists(t, F)
    \/ UpdateSet(t, F)
    \/ DeleteExists(t, F)
    \/ DeleteKey(t, F)
    \/ ListKeys(t, F)
    \/ ListGet(t, F)
    \/ StatsKeys(t, F)
    \/ Return(t)

-----------------------------------------------------------------------------
(* The store's side *)

Tick == TTL_SECONDS \div TicksPerTTL

\* Time passes by one tick: every expiring key ages, and the store removes
\* the keys whose time is up.  `between` keeps it between requests.
Elapse(between) ==
    /\ store # << >>
    /\ between => \A t \in Tasks : pc[t] = "idle"
    /\ LET alive == {k \in DOMAIN store :
                        store[k].ttl = NoExpiry \/ store[k].ttl > Tick}
           expired == DOMAIN store \ alive
       IN  /\ store' = [k \in alive |->
                           IF store[k].ttl = NoExpiry
                           THEN store[k]
                           ELSE [store[k] EXCEPT !.ttl = @ - Tick]]
           /\ last' = [k \in DOMAIN last \ expired |-> last[k]]
           /\ age' = [k \in DOMAIN age |-> Min(age[k] + Tick, TTL_SECONDS)]
    /\ UNCHANGED <<reachable, pc, req, loc, resp, calls, before, nin, nout, client, result>>

\* the store (or the network to it) goes away and comes back
Outage ==
    /\ reachable
    /\ reachable' = FALSE
    /\ UNCHANGED <<store, pc, req, loc, resp, calls, last, before, nin, nout,
                   client, result, age>>

Recover ==
    /\ ~reachable
    /\ reachable' = TRUE
    /\ UNCHANGED <<store, pc, req, loc, resp, calls, last, before, nin, nout,
                   client, result, age>>

-----------------------------------------------------------------------------
(* The manager on its own: its methods called directly, from construction *)

\* AsyncRedisManager.initialize, redis_client.py:27-47
initialize ==
    /\ ~client
    /\ client' = TRUE
    /\ UNCHANGED <<store, reachable, pc, req, loc, resp, calls, last, before, nin, nout,
                   result, age>>

ClientKeys == {PHONE_PLUS, cleaned_validate_phone(PHONE_TEN)}
ClientValues == {Addr("A", 5), Addr("B", 500)}

\* the expire argument: none (0 and None are both falsy) or a number of seconds
Expires == {0, TTL_SECONDS}

\* what a direct call returned: op, key, what happened to the command (f),
\* the returned value (ret) and the store as it was before the call (was)
Result(op, key, f, ret) == [op |-> op, key |-> key, f |-> f, ret |-> ret, was |-> store]

\* a direct call leaving the store as s and having returned r
Returned(r, s) ==
    /\ result' = r
    /\ store' = s
    /\ UNCHANGED <<reachable, pc, req, loc, resp, calls, last, before, nin, nout,
                   client, age>>

CallSetData(F) ==
    \E key \in ClientKeys, value \in ClientValues, expire \in Expires :
        \E f \in WriteOutcomes(F) :
            LET w == set_data(store, key, value, expire, f)
            IN  Returned(Result("set", key, f, w.ret), w.store)

CallGetData(F) ==
    \E key \in ClientKeys : \E f \in ReadOutcomes(F) :
        Returned(Result("get", key, f, get_data(store, key, f)), store)

CallDeleteKey(F) ==
    \E key \in ClientKeys : \E f \in WriteOutcomes(F) :
        LET d == delete_key(store, key, f)
        IN  Returned(Result("delete", key, f, d.ret), d.store)

CallExists(F) ==
    \E key \in ClientKeys : \E f \in ReadOutcomes(F) :
        Returned(Result("exists", key, f, exists(store, key, f)), store)

CallKeys(F) ==
    \E f \in ReadOutcomes(F) : \E order \in redis_keys(store) :
        Returned(Result("keys", << >>, f, keys(order, f)), store)

-----------------------------------------------------------------------------
(* The normalizer on its own *)

Copies == {"validate_phone", "get_address", "update_address", "delete_record"}

cleaned(copy, v) ==
    CASE copy = "validate_phone" -> cleaned_validate_phone(v)
      [] copy = "get_address" -> cleaned_get_address(v)
      [] copy = "update_address" -> cleaned_update_address(v)
      [] copy = "delete_record" -> cleaned_delete_record(v)

NormChars == {"0", "7", "+", " ", "-", "a", "SUP2"}

RECURSIVE StringsOfLen(_)
StringsOfLen(n) ==
    IF n = 0
    THEN {<< >>}
    ELSE {Append(s, c) : s \in StringsOfLen(n - 1), c \in NormChars}

NormStrings == UNION {StringsOfLen(n) : n \in 0..MaxLen}

Normalize(copy) ==
    /\ copy \notin DOMAIN nout
    /\ nout' = (copy :> cleaned(copy, nin)) @@ nout
    /\ UNCHANGED <<store, reachable, pc, req, loc, resp, calls, last, before, nin,
                   client, result, age>>

-----------------------------------------------------------------------------
(* Specifications *)

SeqTasks == {1}

\* one request at a time, the store never faulting
NextSeq ==
    \/ \E t \in SeqTasks : Handler(t, Requests, {"ok"})
    \/ Elapse(TRUE)

SpecSeq == Init /\ [][NextSeq]_vars

\* one request at a time, store calls faulting and the store going away
NextFault ==
    \/ \E t \in SeqTasks : Handler(t, Requests, Outcomes)
    \/ Elapse(TRUE)
    \/ Outage
    \/ Recover

SpecFault == Init /\ [][NextFault]_vars

\* concurrent requests on one record, expiry at any time
Next ==
    \/ \E t \in Tasks : Handler(t, ConcurrentRequests, {"ok"})
    \/ Elapse(FALSE)

Spec == Init /\ [][Next]_vars

\* one request at a time, store calls faulting, expiry at any time (also
\* between the awaits of a request)
NextList ==
    \/ \E t \in SeqTasks : Handler(t, Requests, Outcomes)
    \/ Elapse(FALSE)

SpecList == Init /\ [][NextList]_vars

\* one request at a time on up to six records, the store never faulting
NextMany ==
    \/ \E t \in SeqTasks : Handler(t, ManyRequests, {"ok"})
    \/ Elapse(TRUE)

SpecMany == Init /\ [][NextMany]_vars

\* concurrent requests, store calls faulting, expiry at any time
NextKeys ==
    \/ \E t \in Tasks : Handler(t, KeyRequests, Outcomes)
    \/ Elapse(FALSE)

SpecKeys == Init /\ [][NextKeys]_vars

\* the manager from its construction: client not yet set
InitClient ==
    /\ store = << >>
    /\ reachable = TRUE
    /\ pc = [t \in Tasks |-> "idle"]
    /\ req = [t \in Tasks |-> NoRequest]
    /\ loc = [t \in Tasks |-> NoLocals]
    /\ resp = [t \in Tasks |-> NoResponse]
    /\ calls = [t \in Tasks |-> << >>]
    /\ last = << >>
    /\ before = [t \in Tasks |-> << >>]
    /\ nin = << >>
    /\ nout = << >>
    /\ client = FALSE
    /\ result = NoResult
    /\ age = << >>

NextClient ==
    \/ initialize
    \/ CallSetData(Outcomes)
    \/ CallGetData(Outcomes)
    \/ CallDeleteKey(Outcomes)
    \/ CallExists(Outcomes)
    \/ CallKeys(Outcomes)
    \/ Elapse(TRUE)

SpecClient == InitClient /\ [][NextClient]_vars

\* the normalizer's copies applied to every short string
InitNorm ==
    /\ store = << >>
    /\ reachable = TRUE
    /\ pc = [t \in Tasks |-> "idle"]
    /\ req = [t \in Tasks |-> NoRequest]
    /\ loc = [t \in Tasks |-> NoLocals]
    /\ resp = [t \in Tasks |-> NoResponse]
    /\ calls = [t \in Tasks |-> << >>]
    /\ last = << >>
    /\ before = [t \in Tasks |-> << >>]
    /\ nin \in NormStrings
    /\ nout = << >>
    /\ client = TRUE
    /\ result = NoResult
    /\ age = << >>

NextNorm == \E copy \in Copies : Normalize(copy)

SpecNorm == InitNorm /\ [][NextNorm]_vars

-----------------------------------------------------------------------------
(* What the claims speak of *)

\* the normalized phone of the specification: the decimal digits and '+' of
\* the input, in order
RECURSIVE DecimalOrPlus(_)
DecimalOrPlus(s) ==
    IF s = << >>
    THEN << >>
    ELSE (IF Head(s) \in DecimalDigits \cup {"+"} THEN <<Head(s)>> ELSE << >>)
         \o DecimalOrPlus(Tail(s))

Done(t, op) == pc[t] = "done" /\ req[t].op = op

Made(t, op) == \E i \in DOMAIN calls[t] : calls[t][i].op = op

AddressInBounds(a) == a.len >= 5 /\ a.len <= 500

\* what a read of key p answers on store s
ReadOf(s, p) == get_address_response(p, get_data(s, p, "ok"))

-----------------------------------------------------------------------------
(* Claims *)

\* C1: in a sequential run without store faults, a read of a path that
\* normalizes to p, p having a live last successful write (create 201 or
\* update 200, no delete or expiry since) of address A, answers 200 with
\* phone p and address A.
C1_ReadReturnsLastWritten ==
    \A t \in Tasks : \A p \in DOMAIN last :
        (Done(t, "read") /\ DecimalOrPlus(req[t].phone) = p)
        => /\ resp[t].code = 200
           /\ resp[t].phone = p
           /\ resp[t].address = last[p]

\* a read through a differently written phone, after an update, found the
\* updated address
C1_Witness ==
    \E t \in Tasks :
        /\ Done(t, "read")
        /\ req[t].phone = PHONE_SPACED
        /\ PHONE_PLUS \in DOMAIN last
        /\ last[PHONE_PLUS] = Addr("B", 500)
        /\ resp[t].code = 200
        /\ store[PHONE_PLUS].ttl < TTL_SECONDS

\* C2: in a sequential run without store faults, a create for a phone that
\* has a live record answers 409 carrying the address of the earlier
\* successful write, makes no set, and leaves the store (address and TTL
\* of the record included) as it was.
C2_ConflictOnDuplicateCreate ==
    \A t \in Tasks :
        LET p == DecimalOrPlus(req[t].phone)
        IN  (Done(t, "create") /\ AddressInBounds(req[t].address)
                /\ p \in DOMAIN before[t])
            => /\ resp[t].code = 409
               /\ p \in DOMAIN last
               /\ resp[t].existing_address = last[p]
               /\ resp[t].existing_address = before[t][p].value
               /\ ~Made(t, "set")
               /\ store = before[t]

\* a second create, with another address and another spelling of the phone,
\* met the aged record of the first
C2_Witness ==
    \E t \in Tasks :
        /\ Done(t, "create")
        /\ req[t].phone = PHONE_SPACED
        /\ req[t].address = Addr("B", 500)
        /\ PHONE_PLUS \in DOMAIN before[t]
        /\ before[t][PHONE_PLUS].ttl < TTL_SECONDS
        /\ resp[t].code = 409
        /\ resp[t].existing_address = Addr("A", 5)

\* C3: in a sequential run without store faults, an update of a phone that
\* has no live record answers 404, makes no set and leaves the store as it
\* was.
C3_UpdateRequiresExistence ==
    \A t \in Tasks :
        (Done(t, "update") /\ AddressInBounds(req[t].address)
            /\ DecimalOrPlus(req[t].phone) \notin DOMAIN before[t])
        => /\ resp[t].code = 404
           /\ ~Made(t, "set")
           /\ store = before[t]

\* an update of a phone never created, beside another phone's record
C3_Witness ==
    \E t \in Tasks :
        /\ Done(t, "update")
        /\ req[t].phone = PHONE_TEN
        /\ AddressInBounds(req[t].address)
        /\ DOMAIN before[t] = {PHONE_PLUS}
        /\ resp[t].code = 404

\* C4: in a sequential run without store faults, a delete of a phone with a
\* live record answers 204 and removes the key, so that the read that
\* follows answers 404; a delete of a phone with no live record answers 404,
\* calls no store delete and leaves the store as it was.
C4_DeleteSemantics ==
    \A t \in Tasks :
        LET p == DecimalOrPlus(req[t].phone)
        IN  Done(t, "delete")
            => IF p \in DOMAIN before[t]
               THEN /\ resp[t].code = 204
                    /\ p \notin DOMAIN store
                    /\ store = [k \in DOMAIN before[t] \ {p} |-> before[t][k]]
                    /\ ReadOf(store, p).code = 404
               ELSE /\ resp[t].code = 404
                    /\ ~Made(t, "delete")
                    /\ store = before[t]

\* a delete removed one of two records
C4_Witness ==
    \E t \in Tasks :
        /\ Done(t, "delete")
        /\ req[t].phone = PHONE_SPACED
        /\ DOMAIN before[t] = {PHONE_PLUS, DecimalOrPlus(PHONE_TEN)}
        /\ resp[t].code = 204
        /\ DOMAIN store = {DecimalOrPlus(PHONE_TEN)}

\* C5: under every interleaving of concurrent requests and expiry, the set
\* of an update never makes present a key that was absent when it wrote.
C5_UpdateNeverCreates ==
    [][\A t \in Tasks :
          (pc[t] = "update_set" /\ pc'[t] = "done" /\ loc[t].phone \notin DOMAIN store)
          => loc[t].phone \notin DOMAIN store']_vars

\* C6: a create whose address has fewer than 5 or more than 500 characters,
\* or whose normalized phone has fewer than 10, and an update whose address
\* has fewer than 5 or more than 500, is rejected as a validation error
\* before any store call, the store staying as it was.
C6_ValidationBoundaries ==
    \A t \in Tasks :
        (\/ /\ Done(t, "create")
            /\ \/ ~AddressInBounds(req[t].address)
               \/ Len(DecimalOrPlus(req[t].phone)) < 10
         \/ /\ Done(t, "update")
            /\ ~AddressInBounds(req[t].address))
        => /\ resp[t].code = 422
           /\ calls[t] = << >>
           /\ store = before[t]

\* a create was rejected for its phone alone, twelve characters as written
\* and nine once normalized
C6_Witness ==
    \E t \in Tasks :
        /\ Done(t, "create")
        /\ req[t].phone = PHONE_NINE
        /\ Len(req[t].phone) >= 10
        /\ req[t].address = Addr("B", 500)
        /\ resp[t].code = 422
        /\ store # << >>

\* the store after the write a request's failed call asked for
FailedWrite(t, c) ==
    IF c.op = "set"
    THEN redis_setex(before[t], c.key, TTL_SECONDS, req[t].address)
    ELSE redis_delete(before[t], c.key).store

\* C7: when the client's set fails in a create or an update, or its delete
\* fails in a delete, the request answers 500 and makes no further store
\* call: the store is as the request found it, or as the failed call alone
\* left it.
C7_StoreFailurePropagation ==
    \A t \in Tasks : \A i \in DOMAIN calls[t] :
        (calls[t][i].op \in {"set", "delete"} /\ ~calls[t][i].ret)
        => /\ i = Len(calls[t])
           /\ pc[t] = "done"
           /\ resp[t].code = 500
           /\ store \in {before[t], FailedWrite(t, calls[t][i])}

\* an update answered 500 for a set that the store had run
C7_Witness ==
    \E t \in Tasks :
        /\ Done(t, "update")
        /\ Len(calls[t]) = 2
        /\ calls[t][2].op = "set"
        /\ ~calls[t][2].ret
        /\ resp[t].code = 500
        /\ store # before[t]

\* C8: whatever the request, a fault in any store call made for it makes
\* its response 500.
C8_EveryFaultIs500 ==
    \A t \in Tasks :
        (pc[t] = "done" /\ \E i \in DOMAIN calls[t] : calls[t][i].fault)
        => resp[t].code = 500

\* C9: a health request probes the store, and answers 200 when the probe is
\* answered and 503 when it is not.
C9_HealthReflectsStore ==
    \A t \in Tasks :
        Done(t, "health")
        => /\ Len(calls[t]) = 1
           /\ calls[t][1].op = "ping"
           /\ resp[t].code = (IF calls[t][1].fault THEN 503 ELSE 200)

\* C10: every copy of the normalizer returns exactly the decimal digits and
\* '+' of its input, in order; normalizing an output returns it unchanged;
\* the four copies agree.
C10_PhoneNormalization ==
    \A c \in DOMAIN nout :
        /\ nout[c] = DecimalOrPlus(nin)
        /\ cleaned(c, nout[c]) = nout[c]
        /\ \A d \in DOMAIN nout : nout[d] = nout[c]

\* the store without key p
Without(s, p) == [k \in DOMAIN s \ {p} |-> s[k]]

\* C11: create, read, update and delete call the store with the normalized
\* phone of the request and with no other key, and every key of the store
\* is a normalized phone; in a sequential run without store faults a request
\* whose phone, however written, normalizes to the key p of a live record
\* acts on that record: the create answers 409, the read 200 with the
\* record's address, the update 200 writing to p alone, the delete 204
\* removing p alone.
C11_OneRecordPerNormalizedPhone ==
    /\ \A k \in DOMAIN store : DecimalOrPlus(k) = k
    /\ \A t \in Tasks :
        LET p == DecimalOrPlus(req[t].phone)
            op == req[t].op
        IN  /\ op \in {"create", "read", "update", "delete"}
               => \A i \in DOMAIN calls[t] : calls[t][i].key = p
            /\ (/\ pc[t] = "done"
                /\ p \in DOMAIN before[t]
                /\ op \in {"create", "update"} => AddressInBounds(req[t].address))
               => CASE op = "create" ->
                          resp[t].code = 409 /\ store = before[t]
                    [] op = "read" ->
                          /\ resp[t].code = 200
                          /\ resp[t].phone = p
                          /\ resp[t].address = before[t][p].value
                          /\ store = before[t]
                    [] op = "update" ->
                          /\ resp[t].code = 200
                          /\ store[p].value = req[t].address
                          /\ Without(store, p) = Without(before[t], p)
                    [] op = "delete" ->
                          /\ resp[t].code = 204
                          /\ store = Without(before[t], p)
                    [] OTHER -> TRUE

\* an update through "+7 916 123 45 67" rewrote the record kept under
\* "+79161234567", beside the record of another phone
C11_Witness ==
    \E t \in Tasks :
        /\ Done(t, "update")
        /\ req[t].phone = PHONE_SPACED
        /\ req[t].phone # PHONE_PLUS
        /\ Cardinality(DOMAIN before[t]) = 2
        /\ before[t][PHONE_PLUS].value = Addr("A", 5)
        /\ resp[t].code = 200
        /\ store[PHONE_PLUS].value = Addr("B", 500)
        /\ DOMAIN store = DOMAIN before[t]

\* the requests that answered with a successful write: create 201, update 200
Wrote(t) ==
    \/ Done(t, "create") /\ resp[t].code = 201
    \/ Done(t, "update") /\ resp[t].code = 200

\* C12: when a create has answered 201 or an update 200, the written key is
\* in the store with exactly 2,592,000 seconds to live, whatever time it had
\* left before the write, and holds the request's address.
C12_TTLResetOnWrite ==
    \A t \in Tasks :
        Wrote(t)
        => LET p == resp[t].phone
           IN  /\ p \in DOMAIN store
               /\ store[p].ttl = 2592000
               /\ store[p].ttl = TTL_SECONDS
               /\ store[p].value = req[t].address
               /\ age[p] = 0

\* an update answered 200 on a record that had less than the window left
C12_Witness ==
    \E t \in Tasks :
        /\ Done(t, "update")
        /\ resp[t].code = 200
        /\ resp[t].phone \in DOMAIN before[t]
        /\ before[t][resp[t].phone].ttl < TTL_SECONDS
        /\ before[t][resp[t].phone].ttl > 0
        /\ store[resp[t].phone].ttl = TTL_SECONDS

\* the calls a request made after its first
Later(t) == Tail(calls[t])

\* C13: a finished list request answers 200 with total_records the number of
\* keys its enumeration returned; it has fetched, in order, the first
\* min(limit, total) enumerated keys when limit > 0 and all of them
\* otherwise, and nothing else; records holds exactly the fetched keys whose
\* value was present; displayed_records is the size of records, at most
\* total_records, and at most limit when limit > 0.
C13_ListTruncation ==
    \A t \in Tasks :
        Done(t, "list")
        => LET all_keys == loc[t].all_keys
               total == Len(all_keys)
               limit == req[t].limit
               n == IF limit > 0 THEN Min(limit, total) ELSE total
               present == {i \in 1..n : Later(t)[i].ret}
           IN  /\ resp[t].code = 200
               /\ calls[t][1].op = "keys"
               /\ calls[t][1].fault => total = 0
               /\ resp[t].total_records = total
               /\ Len(Later(t)) = n
               /\ \A i \in 1..n :
                    Later(t)[i].op = "get" /\ Later(t)[i].key = all_keys[i]
               /\ DOMAIN resp[t].records = {all_keys[i] : i \in present}
               /\ resp[t].displayed_records = Cardinality(DOMAIN resp[t].records)
               /\ resp[t].displayed_records = Cardinality(present)
               /\ resp[t].displayed_records <= resp[t].total_records
               /\ limit > 0 => resp[t].displayed_records <= limit

\* of two enumerated keys a list with limit 1 fetched and returned the first
\* alone
C13_Witness ==
    \E t \in Tasks :
        /\ Done(t, "list")
        /\ req[t].limit = 1
        /\ resp[t].total_records = 2
        /\ Len(calls[t]) = 2
        /\ resp[t].displayed_records = 1
        /\ DOMAIN resp[t].records = {loc[t].all_keys[1]}

\* a list without limit, no call of it faulting, returned one of its two
\* keys: the other expired after the enumeration
C13_WitnessSkipped ==
    \E t \in Tasks :
        /\ Done(t, "list")
        /\ req[t].limit = 0
        /\ \A i \in DOMAIN calls[t] : ~calls[t][i].fault
        /\ resp[t].total_records = 2
        /\ Len(calls[t]) = 3
        /\ resp[t].displayed_records = 1

\* what each method of the client returns in place of raising
Sentinel(op) ==
    CASE op = "get" -> None
      [] op = "keys" -> << >>
      [] OTHER -> FALSE

\* C14: a method of the store client called while its client is not set, or
\* whose command faults, returns its sentinel: absent for get, failure for
\* set, false for exists, failure for delete, the empty sequence for
\* listKeys; a delete that removed no key returns failure; an exists that
\* did not fault returns true exactly when the key was live.
C14_ClientNeverRaises ==
    result.op # "none"
    => /\ result.f # "ok" => result.ret = Sentinel(result.op)
       /\ result.op \in {"set", "exists", "delete"} => result.ret \in BOOLEAN
       /\ (result.op = "delete" /\ result.key \notin DOMAIN result.was)
          => result.ret = FALSE
       /\ (result.op = "exists" /\ result.f = "ok")
          => (result.ret <=> result.key \in DOMAIN result.was)

\* a get of a live key returned absent, its command having faulted
C14_Witness ==
    /\ result.op = "get"
    /\ result.f = "lost"
    /\ result.key \in DOMAIN result.was
    /\ result.ret = None

\* a set on the manager not yet initialized returned failure
C14_WitnessUninitialized ==
    /\ ~client
    /\ result.op = "set"
    /\ result.f = "uninitialized"
    /\ result.ret = FALSE
    /\ store = << >>

\* a delete that did not fault and found no key returned failure
C14_WitnessNothingRemoved ==
    /\ result.op = "delete"
    /\ result.f = "ok"
    /\ result.was # << >>
    /\ result.key \notin DOMAIN result.was
    /\ result.ret = FALSE

\* C15: in a sequential run in which store calls may fault, a create for a
\* phone that has a live record never answers 201 and never changes the
\* address stored for it.
C15_CreateFailsIfExistsUnderFaults ==
    \A t \in Tasks :
        LET p == DecimalOrPlus(req[t].phone)
        IN  (Done(t, "create") /\ p \in DOMAIN before[t])
            => /\ resp[t].code # 201
               /\ p \in DOMAIN store
               /\ store[p].value = before[t][p].value

\* C16: without store faults, the set of a create, whenever it runs and
\* whether or not the key has become live since the create's exists check,
\* answers 201 and leaves the store holding that create's address: of the
\* creates that all passed the exists check, the one whose set runs last wins, and
\* none of them sees an error.
C16_ConcurrentCreateRace ==
    [][\A t \in Tasks :
          (pc[t] = "create_set" /\ pc'[t] = "done")
          => /\ resp'[t].code = 201
             /\ resp'[t].address = loc[t].address
             /\ loc[t].phone \in DOMAIN store'
             /\ store'[loc[t].phone].value = loc[t].address
             /\ last'[loc[t].phone] = loc[t].address]_vars

\* two creates for one phone with different addresses have both answered
\* 201; both found no key at their exists check, the second set ran on the
\* key the first had written, and the store holds the second's address
C16_Witness ==
    \E t, u \in Tasks :
        /\ t # u
        /\ Done(t, "create") /\ Done(u, "create")
        /\ resp[t].code = 201 /\ resp[u].code = 201
        /\ resp[t].phone = resp[u].phone
        /\ req[t].address # req[u].address
        /\ ~calls[t][1].ret /\ ~calls[u][1].ret
        /\ ~calls[t][2].had
        /\ calls[u][2].had
        /\ before[t] = << >> /\ before[u] = << >>
        /\ store[resp[u].phone].value = req[u].address
        /\ store[resp[u].phone].ttl = TTL_SECONDS

\* C17: in a sequential run without store faults, a key whose last
\* successful write (create 201 or update 200, no delete 204 since) is 30
\* days old or older is not in the store, and one whose last successful
\* write is younger is, with the rest of its 30 days to live and the address
\* of that write; a read, update or delete of an expired phone answers 404
\* and leaves it expired, and a create of a phone with no live record
\* answers 201 and starts a new window.
C17_ExpiryIsHardRemoval ==
    /\ DOMAIN store \subseteq DOMAIN age
    /\ \A k \in DOMAIN age :
        IF age[k] >= 2592000
        THEN k \notin DOMAIN store
        ELSE /\ k \in DOMAIN store
             /\ store[k].ttl = 2592000 - age[k]
             /\ store[k].value = last[k]
    /\ \A t \in Tasks :
        LET p == DecimalOrPlus(req[t].phone)
        IN  /\ (/\ pc[t] = "done"
                /\ req[t].op \in {"read", "update", "delete"}
                /\ req[t].op = "update" => AddressInBounds(req[t].address)
                /\ p \notin DOMAIN before[t])
               => resp[t].code = 404 /\ store = before[t]
            /\ (/\ Done(t, "create")
                /\ AddressInBounds(req[t].address)
                /\ Len(p) >= 10
                /\ p \notin DOMAIN before[t])
               => resp[t].code = 201 /\ age[p] = 0 /\ p \in DOMAIN store

\* an update of a phone whose record expired answered 404, beside the record
\* of another phone, written later and still live
C17_Witness ==
    \E t \in Tasks :
        /\ Done(t, "update")
        /\ AddressInBounds(req[t].address)
        /\ DecimalOrPlus(req[t].phone) \in DOMAIN age
        /\ age[DecimalOrPlus(req[t].phone)] = TTL_SECONDS
        /\ resp[t].code = 404
        /\ \E k \in DOMAIN store : store[k].ttl < TTL_SECONDS

\* a create of a phone whose record expired has passed its exists check and
\* is about to write
C17_WitnessRecreating ==
    \E t \in Tasks :
        /\ pc[t] = "create_set"
        /\ loc[t].phone \in DOMAIN age
        /\ age[loc[t].phone] = TTL_SECONDS
        /\ loc[t].phone \notin DOMAIN store

ReadOnly == {"read", "list", "stats", "health"}

\* C18: a read, list, stats or health request calls only get and listKeys
\* on the store, and at every point of it and after it the store is as the
\* request found it: the same keys, values and times to live; a stats
\* request makes the one listKeys call and no get, and answers with the
\* number of keys as total_records and min(5, total_records) as
\* sample_size; a health request makes no store call at all.
C18_ReadOnlyOperations ==
    \A t \in Tasks :
        req[t].op \in ReadOnly
        => /\ \A i \in DOMAIN calls[t] : calls[t][i].op \in {"get", "keys"}
           /\ store = before[t]
           /\ Done(t, "stats")
              => /\ Len(calls[t]) = 1
                 /\ calls[t][1].op = "keys"
                 /\ resp[t].total_records = Cardinality(DOMAIN before[t])
                 /\ resp[t].sample_size = Min(5, resp[t].total_records)
                 /\ resp[t].sample_size <= 5
           /\ Done(t, "health") => calls[t] = << >>

\* a stats request over six records, some of them aged, answered 6 and 5
C18_Witness ==
    \E t \in Tasks :
        /\ Done(t, "stats")
        /\ Cardinality(DOMAIN store) = 6
        /\ \E k \in DOMAIN store : store[k].ttl < TTL_SECONDS
        /\ resp[t].total_records = 6
        /\ resp[t].sample_size = 5

\* a read and a list of aged records returned them and left their times
C18_WitnessAged ==
    \E t \in Tasks :
        /\ pc[t] = "done"
        /\ req[t].op \in {"read", "list"}
        /\ Made(t, "get")
        /\ resp[t].code = 200
        /\ store # << >>
        /\ \A k \in DOMAIN store : store[k].ttl < TTL_SECONDS

\* C19: in every interleaving of concurrent requests, a delete request
\* answers 204 only on the step in which its own store delete removes the
\* key, live until then and gone from then on; hence of the deletes racing
\* for one write of the key one at most answers 204, and every finished
\* delete has answered 204, 404 or 500.
C19_DeleteExclusivity ==
    /\ [](\A t \in Tasks : Done(t, "delete") => resp[t].code \in {204, 404, 500})
    /\ [][\A t \in Tasks :
            (req[t].op = "delete" /\ resp[t].code # 204 /\ resp'[t].code = 204)
            => /\ pc[t] = "delete_key"
               /\ loc[t].phone \in DOMAIN store
               /\ loc[t].phone \notin DOMAIN store'
               /\ \A u \in Tasks \ {t} : resp'[u] = resp[u]]_vars

\* two deletes of one phone passed the exists check together; one answered
\* 204, the other, whose store delete removed nothing, 500
C19_Witness ==
    \E t, u \in Tasks :
        /\ Done(t, "delete") /\ Done(u, "delete")
        /\ before[t] # << >> /\ before[u] # << >>
        /\ calls[t][1].ret /\ calls[u][1].ret
        /\ resp[t].code = 204
        /\ Len(calls[u]) = 2
        /\ ~calls[u][2].had
        /\ resp[u].code = 500

\* the normalized phones of the create requests the runs on keys can make
CreatedPhones == {DecimalOrPlus(r.phone) : r \in {q \in KeyRequests : q.op = "create"}}

\* C20: from the empty store, after any interleaving of requests, store
\* faults and expiry, every key of the store is made of decimal digits and
\* '+' only, has 10 to 20 characters and is the normalized phone of a create
\* request, and every stored value is an address of 5 to 500 characters; an
\* update or delete whose path phone normalizes to fewer than 10 or more
\* than 20 characters makes no set.
C20_StoreKeyWellFormed ==
    /\ \A k \in DOMAIN store :
        /\ \A i \in DOMAIN k : k[i] \in DecimalDigits \cup {"+"}
        /\ Len(k) >= 10
        /\ Len(k) <= 20
        /\ k \in CreatedPhones
        /\ store[k].value.len >= 5
        /\ store[k].value.len <= 500
    /\ \A t \in Tasks :
        (/\ req[t].op \in {"update", "delete"}
         /\ Len(DecimalOrPlus(req[t].phone)) \notin 10..20)
        => ~Made(t, "set")

====
